---- MODULE Spec2Model ----
(***************************************************************************)
(* catscii: the instrumented request pipeline of src/main.rs.              *)
(*                                                                         *)
(* Every request to GET / is one task.  A worker thread of the runtime     *)
(* polls a task until it suspends on network I/O or finishes; the          *)
(* suspension points are the four awaits on the HTTP client.  The          *)
(* OpenTelemetry "current context" is a thread-local of the worker; a      *)
(* future wrapped by with_context(cx) attaches cx each time it is polled   *)
(* and restores the previous context when the poll returns.  A span ends   *)
(* when the context (or in_span scope) that owns it is dropped.            *)
(*                                                                         *)
(* The statements of the handler are the operators root_get ..             *)
(* root_get_ret on the record of the program's state; Poll runs them, in   *)
(* program order, from the point the task resumes to the point it          *)
(* suspends or returns.  log[r] keeps the order of what request r did.     *)
(***************************************************************************)
EXTENDS Integers, Sequences, FiniteSets, TLC

\* ---- bounds of the model
NumRequests == 2
NumWorkers == 2
MaxImages == 2

Requests == 1..NumRequests
Workers == 1..NumWorkers

\* ---- values
api_url == "http://api.thecatapi.com/v1/images/search"
ImageUrls == {"http://x/cat.png", "http://y/cat.jpg"}

\* headers.get(USER_AGENT): None (<<>>) or Some(h) (<<h>>); h.to_str() is Ok
\* only when every byte of h is visible ASCII
HeaderValues ==
    {[bytes |-> "curl/8.0", visible |-> TRUE],
     [bytes |-> "caf\\xe9", visible |-> FALSE]}
UserAgents == {<<>>} \cup {<<h>> : h \in HeaderValues}

\* unsigned 32-bit and signed 64-bit integers as little-endian 16-bit limbs
Limb == 65536
SignLimb == 32768

\* `x as i32 as i64`: the sign-extending cast
SignExtendI64(u) ==
    IF u[2] >= SignLimb THEN <<u[1], u[2], Limb - 1, Limb - 1>>
    ELSE <<u[1], u[2], 0, 0>>

\* `x as i64` for x: u32 zero-extends to 64 bits
AsI64(u) == <<u[1], u[2], 0, 0>>

I64IsNegative(x) == x[4] >= SignLimb

\* the i64 x and the u32 u denote the same number
I64EqualsU32(x, u) ==
    /\ ~I64IsNegative(x)
    /\ x[3] = 0 /\ x[4] = 0
    /\ x[1] = u[1] /\ x[2] = u[2]

\* downloaded payloads and what image::load_from_memory makes of them
ImageBytes == {"not an image", "png 10x10", "png huge"}
NoImage == [name |-> "", width |-> <<0, 0>>, height |-> <<0, 0>>]

DecodedImage(bytes) ==
    CASE bytes = "png 10x10" ->
            [name |-> "cat10", width |-> <<10, 0>>, height |-> <<10, 0>>]
      [] bytes = "png huge" ->
            [name |-> "cathuge", width |-> <<Limb - 1, Limb - 1>>,
             height |-> <<0, SignLimb>>]
      [] OTHER -> NoImage

Decodable(bytes) == bytes \in {"png 10x10", "png huge"}

\* ---- errors (color_eyre::Report) and their Display text
NoError == [kind |-> "none", url |-> "", code |-> 0]
SendError(url) == [kind |-> "send", url |-> url, code |-> 0]
StatusError(url, code) == [kind |-> "status", url |-> url, code |-> code]
BodyError(url) == [kind |-> "body", url |-> url, code |-> 0]
JsonError == [kind |-> "json", url |-> "", code |-> 0]
NoImagesError == [kind |-> "no images", url |-> "", code |-> 0]
ImageError == [kind |-> "image", url |-> "", code |-> 0]

StatusText(code) ==
    CASE code = 404 -> "404 Not Found"
      [] code = 500 -> "500 Internal Server Error"
      [] OTHER -> "200 OK"

\* format!("{e}")
Format(e) ==
    CASE e.kind = "send" -> <<"error sending request for url", e.url>>
      [] e.kind = "status" ->
            <<"HTTP status error", StatusText(e.code), "for url", e.url>>
      [] e.kind = "body" -> <<"error decoding response body", e.url>>
      [] e.kind = "json" -> <<"error decoding response body", "expected value">>
      [] e.kind = "no images" -> <<"The Cat API returned no images">>
      [] e.kind = "image" -> <<"Format error decoding image">>
      [] OTHER -> <<>>

\* artem::convert(image, HtmlFile(true, true)): opaque, a function of the image
Convert(img) == <<"<!DOCTYPE html>", img.name>>

\* ---- spans
SpanNames ==
    {"root_get", "get_cat_ascii_art", "get_cat_image_url", "download_file",
     "image::load_from_memory", "artem::convert"}
NoSpan == <<0, "">>
Unset == [code |-> "Unset", description |-> <<>>]
NewSpan ==
    [state |-> "none", starts |-> 0, parent |-> NoSpan, status |-> Unset,
     user_agent |-> <<>>, width |-> <<>>, height |-> <<>>]

VARIABLES
    path,         \* path[r]: the route of request r, "" before it arrives
    pc,           \* pc[r]: where request r's task is in the handler
    headers,      \* headers[r]: the user-agent header of the request
    spans,        \* spans[r][name]: the span `name` started for request r
    current,      \* current[w]: active span of worker w's thread-local Context
    futures,      \* futures[r]: contexts held by r's live with_context futures
    net,          \* net[r]: the outstanding outbound call of r and its outcome
    requested,    \* requested[r]: URLs r has issued an HTTP GET to, in order
    image_url,    \* locals of get_cat_ascii_art
    image_bytes,
    image,
    result,       \* result[r]: the Result the stage or pipeline last returned
    resp,         \* resp[r]: the response built for r; sent when pc[r] = "done"
    log           \* log[r]: what r did, in order

vars ==
    <<path, pc, headers, spans, current, futures, net, requested, image_url,
      image_bytes, image, result, resp, log>>

Idle == [state |-> "idle", ok |-> TRUE, code |-> 0, json |-> <<>>,
         parsable |-> TRUE, bytes |-> ""]
NoResult == [tag |-> "none", e |-> NoError, art |-> <<>>]
Ok == [tag |-> "Ok", e |-> NoError, art |-> <<>>]
Err(e) == [tag |-> "Err", e |-> e, art |-> <<>>]
NoResponse == [status |-> 0, content_type |-> "", body |-> <<>>]

Init ==
    /\ path = [r \in Requests |-> ""]
    /\ pc = [r \in Requests |-> "new"]
    /\ headers = [r \in Requests |-> <<>>]
    /\ spans = [r \in Requests |-> [n \in SpanNames |-> NewSpan]]
    /\ current = [w \in Workers |-> NoSpan]
    /\ futures = [r \in Requests |-> <<>>]
    /\ net = [r \in Requests |-> Idle]
    /\ requested = [r \in Requests |-> <<>>]
    /\ image_url = [r \in Requests |-> ""]
    /\ image_bytes = [r \in Requests |-> ""]
    /\ image = [r \in Requests |-> NoImage]
    /\ result = [r \in Requests |-> NoResult]
    /\ resp = [r \in Requests |-> NoResponse]
    /\ log = [r \in Requests |-> <<>>]

Front(s) == SubSeq(s, 1, Len(s) - 1)
Last(s) == s[Len(s)]

\* the program's state as one record g; running and guards live on the
\* polling worker's stack and exist only during a poll
State ==
    [path |-> path, pc |-> pc, headers |-> headers, spans |-> spans, current |-> current,
     futures |-> futures, net |-> net, requested |-> requested,
     image_url |-> image_url, image_bytes |-> image_bytes, image |-> image,
     result |-> result, resp |-> resp, log |-> log,
     running |-> [w \in Workers |-> 0],
     guards |-> [r \in Requests |-> <<>>]]

\* ---- tracing primitives
\* tracer.start(name): a new span whose parent is the active span of the
\* calling thread's current Context
StartSpan(w, r, name, g) ==
    [g EXCEPT !.spans[r][name] =
                 [@ EXCEPT !.state = "open", !.starts = @ + 1,
                           !.parent = g.current[w]],
              !.log[r] = Append(@, <<"start", name>>)]

\* dropping the last Context that holds a span ends the span
EndSpan(r, name, g) ==
    [g EXCEPT !.spans[r][name].state = "ended",
              !.log[r] = Append(@, <<"end", name>>)]

\* Context::attach: cx becomes current, the guard keeps what was current
Attach(w, r, cx, g) ==
    [g EXCEPT !.guards[r] = Append(@, g.current[w]),
              !.current[w] = cx]

\* dropping a ContextGuard restores the context it kept
Detach(w, r, g) ==
    [g EXCEPT !.current[w] = Last(g.guards[r]),
              !.guards[r] = Front(@)]

\* fut.with_context(Context::current_with_span(span)) and its first poll
WithContext(w, r, name, g) ==
    Attach(w, r, <<r, name>>, [g EXCEPT !.futures[r] = Append(@, <<r, name>>)])

\* the span is ended by hand on the success path only, and a clone of the
\* context outlives the future when the stage returned an error
Completed_LeakOnErr(w, r, name, g) ==
    IF g.result[r].tag = "Err"
    THEN [Detach(w, r, g) EXCEPT !.futures[r] = Front(@)]
    ELSE EndSpan(r, name, [Detach(w, r, g) EXCEPT !.futures[r] = Front(@)])

\* a with_context future completes: its guard is dropped, then the future
\* and the context it holds, which ends the span
Completed(w, r, name, g) ==
    EndSpan(r, name, [Detach(w, r, g) EXCEPT !.futures[r] = Front(@)])

\* WithContext::poll on resumption: every live with_context future of the
\* task attaches its context on the way in, outermost first
RECURSIVE Resume(_, _, _, _)
Resume(w, r, ctxs, g) ==
    IF ctxs = <<>> THEN g
    ELSE Resume(w, r, Tail(ctxs), Attach(w, r, Head(ctxs), g))

\* only the innermost guard restores its context; the others are forgotten
DropGuards_InnermostOnly(w, r, g) ==
    IF g.guards[r] = <<>> THEN g
    ELSE [Detach(w, r, g) EXCEPT !.guards[r] = <<>>]

\* the poll returns Pending: every guard of the poll is dropped, innermost first
RECURSIVE DropGuards(_, _, _)
DropGuards(w, r, g) ==
    IF g.guards[r] = <<>> THEN g ELSE DropGuards(w, r, Detach(w, r, g))

\* a ContextGuard held across the await: the context stays attached to the
\* worker thread when the task suspends
Suspended_KeepingGuards(w, r, g) ==
    [g EXCEPT !.guards[r] = <<>>, !.running[w] = 0]

Suspended(w, r, g) == [DropGuards(w, r, g) EXCEPT !.running[w] = 0]

\* tracer.in_span(name, f): start the span, attach its context, run f
InSpan(w, r, name, g) == Attach(w, r, <<r, name>>, StartSpan(w, r, name, g))

\* in_span returns: the guard and the context are dropped, the span ends
InSpanReturns(w, r, name, g) == EndSpan(r, name, Detach(w, r, g))

\* Span::set_status acts on a span that is still recording; the no-op span
\* of an empty context ignores it
SetStatus(r, id, st, g) ==
    IF id = NoSpan \/ g.spans[id[1]][id[2]].state # "open" THEN g
    ELSE [g EXCEPT !.spans[id[1]][id[2]].status = st,
                   !.log[r] = Append(@, <<"status", id[2]>>)]

\* the bytes of the header are taken as they are (a lossy conversion)
UserAgentAttribute_Lossy(h) ==
    IF h = <<>> THEN "" ELSE h[1].bytes

\* h.to_str().unwrap_or_default().to_owned(), then unwrap_or_default()
UserAgentAttribute(h) ==
    IF h = <<>> THEN ""
    ELSE IF h[1].visible THEN h[1].bytes ELSE ""

\* ---- the upstream services
Arrays == UNION {[1..n -> ImageUrls] : n \in 0..MaxImages}
SendOutcomes ==
    {[Idle EXCEPT !.state = "ready", !.ok = FALSE]}
    \cup {[Idle EXCEPT !.state = "ready", !.code = c] : c \in {200, 404, 500}}
JsonOutcomes ==
    {[Idle EXCEPT !.state = "ready", !.ok = FALSE],
     [Idle EXCEPT !.state = "ready", !.parsable = FALSE]}
    \cup {[Idle EXCEPT !.state = "ready", !.json = a] : a \in Arrays}
BytesOutcomes ==
    {[Idle EXCEPT !.state = "ready", !.ok = FALSE]}
    \cup {[Idle EXCEPT !.state = "ready", !.bytes = b] : b \in ImageBytes}
Pending == [Idle EXCEPT !.state = "pending"]

IsSuccess(code) == code >= 200 /\ code < 300

\* client.get(url).send().await: the GET is issued and the task suspends
Send(w, r, url, next, g) ==
    Suspended(w, r,
        [g EXCEPT !.requested[r] = Append(@, url),
                  !.log[r] = Append(@, <<"GET", url>>),
                  !.net[r] = Pending,
                  !.pc[r] = next])

\* the stage marks the span current in it before returning the error
CheckStatus_Marking(w, r, url, body, ret, g) ==
    IF ~g.net[r].ok
    THEN [SetStatus(r, g.current[w], [code |-> "Error",
                                      description |-> Format(SendError(url))], g)
          EXCEPT !.result[r] = Err(SendError(url)),
                 !.net[r] = Idle, !.pc[r] = ret]
    ELSE IF ~IsSuccess(g.net[r].code)
    THEN [SetStatus(r, g.current[w],
                    [code |-> "Error",
                     description |-> Format(StatusError(url, g.net[r].code))], g)
          EXCEPT !.result[r] = Err(StatusError(url, g.net[r].code)),
                 !.net[r] = Idle, !.pc[r] = ret]
    ELSE Suspended(w, r, [g EXCEPT !.net[r] = Pending, !.pc[r] = body])

\* a failed send is sent again
CheckStatus_Retrying(w, r, url, body, ret, g) ==
    IF ~g.net[r].ok
    THEN [g EXCEPT !.net[r] = Idle,
                   !.pc[r] = IF url = api_url THEN "get_cat_image_url"
                             ELSE "download_file"]
    ELSE IF ~IsSuccess(g.net[r].code)
    THEN [g EXCEPT !.result[r] = Err(StatusError(url, g.net[r].code)),
                   !.net[r] = Idle, !.pc[r] = ret]
    ELSE Suspended(w, r, [g EXCEPT !.net[r] = Pending, !.pc[r] = body])

\* a failed send is awaited again instead of being returned
CheckStatus_AwaitingAgain(w, r, url, body, ret, g) ==
    IF ~g.net[r].ok
    THEN Suspended(w, r, [g EXCEPT !.net[r] = Pending])
    ELSE IF ~IsSuccess(g.net[r].code)
    THEN [g EXCEPT !.result[r] = Err(StatusError(url, g.net[r].code)),
                   !.net[r] = Idle, !.pc[r] = ret]
    ELSE Suspended(w, r, [g EXCEPT !.net[r] = Pending, !.pc[r] = body])

\* `?` on the send, error_for_status()?, then the await on the body
CheckStatus(w, r, url, body, ret, g) ==
    IF ~g.net[r].ok
    THEN [g EXCEPT !.result[r] = Err(SendError(url)),
                   !.net[r] = Idle, !.pc[r] = ret]
    ELSE IF ~IsSuccess(g.net[r].code)
    THEN [g EXCEPT !.result[r] = Err(StatusError(url, g.net[r].code)),
                   !.net[r] = Idle, !.pc[r] = ret]
    ELSE Suspended(w, r, [g EXCEPT !.net[r] = Pending, !.pc[r] = body])

\* ---- root_get and root_get_inner
\* the header is unwrapped: a value that is not a string panics the handler
root_get_Unwrapping(w, r, g) ==
    IF g.headers[r] # <<>> /\ ~g.headers[r][1].visible
    THEN [DropGuards(w, r, g) EXCEPT !.running[w] = 0, !.pc[r] = "panicked"]
    ELSE [WithContext(w, r, "root_get",
            [StartSpan(w, r, "root_get", g) EXCEPT
                !.spans[r]["root_get"].user_agent =
                    <<UserAgentAttribute(g.headers[r])>>,
                !.log[r] = Append(@, <<"attribute", "user_agent">>)])
          EXCEPT !.pc[r] = "root_get_inner"]

\* root_get up to the first poll of root_get_inner().with_context(..)
root_get(w, r, g) ==
    [WithContext(w, r, "root_get",
        [StartSpan(w, r, "root_get", g) EXCEPT
            !.spans[r]["root_get"].user_agent =
                <<UserAgentAttribute(g.headers[r])>>,
            !.log[r] = Append(@, <<"attribute", "user_agent">>)])
     EXCEPT !.pc[r] = "root_get_inner"]

\* root_get_inner up to the first poll of get_cat_ascii_art().with_context(..)
root_get_inner(w, r, g) ==
    [WithContext(w, r, "get_cat_ascii_art",
        StartSpan(w, r, "get_cat_ascii_art", g))
     EXCEPT !.pc[r] = "get_cat_ascii_art"]

\* ---- get_cat_ascii_art
\* stage 1 begins: the image-source span and its future
get_cat_ascii_art(w, r, g) ==
    [WithContext(w, r, "get_cat_image_url",
        StartSpan(w, r, "get_cat_image_url", g))
     EXCEPT !.pc[r] = "get_cat_image_url"]

\* get_cat_image_url: client.get(api_url).send().await
get_cat_image_url_send(w, r, g) == Send(w, r, api_url, "api_send", g)

\* get_cat_image_url: `?`, error_for_status()?, .json().await
get_cat_image_url_status(w, r, g) ==
    CheckStatus(w, r, api_url, "api_json", "get_cat_image_url_ret", g)

\* the first element instead of the last
Pop_First(v) == IF v = <<>> THEN <<>> ELSE <<Head(v)>>

\* Vec::pop: the last element, if any
Pop(v) == IF v = <<>> THEN <<>> ELSE <<Last(v)>>

\* get_cat_image_url: `?` on the body, .pop().ok_or_else(..)?, Ok(image.url)
get_cat_image_url_json(w, r, g) ==
    [g EXCEPT
        !.result[r] =
            IF ~g.net[r].ok THEN Err(BodyError(api_url))
            ELSE IF ~g.net[r].parsable THEN Err(JsonError)
            ELSE IF Pop(g.net[r].json) = <<>> THEN Err(NoImagesError)
            ELSE Ok,
        !.image_url[r] =
            IF g.net[r].ok /\ g.net[r].parsable /\ Pop(g.net[r].json) # <<>>
            THEN Pop(g.net[r].json)[1] ELSE @,
        !.net[r] = Idle,
        !.pc[r] = "get_cat_image_url_ret"]

\* the error is logged and the pipeline goes on
Try_Ignoring(r, stage, next, g) ==
    IF g.result[r].tag = "Ok"
    THEN [g EXCEPT !.log[r] = Append(@, <<"ok", stage>>), !.pc[r] = next]
    ELSE [g EXCEPT !.log[r] = Append(@, <<"err", stage>>), !.pc[r] = next]

\* `?` in get_cat_ascii_art: go on with the Ok value, or return the Err
Try(r, stage, next, g) ==
    IF g.result[r].tag = "Ok"
    THEN [g EXCEPT !.log[r] = Append(@, <<"ok", stage>>), !.pc[r] = next]
    ELSE [g EXCEPT !.log[r] = Append(@, <<"err", stage>>),
                   !.pc[r] = "get_cat_ascii_art_ret"]

\* the image-source future completes, then `?`
get_cat_image_url_ret(w, r, g) ==
    Try(r, "get_cat_image_url", "download_start",
        Completed(w, r, "get_cat_image_url", g))

\* stage 2 begins: the download span and its future
download_file_start(w, r, g) ==
    [WithContext(w, r, "download_file", StartSpan(w, r, "download_file", g))
     EXCEPT !.pc[r] = "download_file"]

\* download_file: client.get(url).send().await
download_file_send(w, r, g) == Send(w, r, g.image_url[r], "dl_send", g)

\* download_file: `?`, error_for_status()?, .bytes().await
download_file_status(w, r, g) ==
    CheckStatus(w, r, g.image_url[r], "dl_bytes", "download_file_ret", g)

\* download_file: `?` on the body, Ok(bytes.to_vec())
download_file_bytes(w, r, g) ==
    [g EXCEPT
        !.result[r] =
            IF ~g.net[r].ok THEN Err(BodyError(g.image_url[r])) ELSE Ok,
        !.image_bytes[r] = IF g.net[r].ok THEN g.net[r].bytes ELSE @,
        !.net[r] = Idle,
        !.pc[r] = "download_file_ret"]

\* the download future completes, then `?`
download_file_ret(w, r, g) ==
    Try(r, "download_file", "load_start", Completed(w, r, "download_file", g))

\* stage 3 begins: in_span("image::load_from_memory", ..)
load_from_memory_start(w, r, g) ==
    [InSpan(w, r, "image::load_from_memory", g) EXCEPT !.pc[r] = "load"]

\* the decode closure marks its own span when the decode fails
load_from_memory_Marking(w, r, g) ==
    IF ~Decodable(g.image_bytes[r])
    THEN [SetStatus(r, <<r, "image::load_from_memory">>,
                    [code |-> "Error", description |-> Format(ImageError)],
                    g) EXCEPT
            !.result[r] = Err(ImageError), !.pc[r] = "load_ret"]
    ELSE [g EXCEPT
            !.result[r] = Ok,
            !.image[r] = DecodedImage(g.image_bytes[r]),
            !.spans[r]["image::load_from_memory"].width =
                <<AsI64(DecodedImage(g.image_bytes[r]).width)>>,
            !.spans[r]["image::load_from_memory"].height =
                <<AsI64(DecodedImage(g.image_bytes[r]).height)>>,
            !.pc[r] = "load_ret"]

\* a decode error is swallowed and an empty image is rendered
load_from_memory_Lenient(w, r, g) ==
    [g EXCEPT
        !.result[r] = Ok,
        !.image[r] = DecodedImage(g.image_bytes[r]),
        !.spans[r]["image::load_from_memory"].width =
            <<AsI64(DecodedImage(g.image_bytes[r]).width)>>,
        !.spans[r]["image::load_from_memory"].height =
            <<AsI64(DecodedImage(g.image_bytes[r]).height)>>,
        !.pc[r] = "load_ret"]

\* the closure: decode with `?`, then record width and height on cx.span()
load_from_memory(w, r, g) ==
    IF ~Decodable(g.image_bytes[r])
    THEN [g EXCEPT !.result[r] = Err(ImageError), !.pc[r] = "load_ret"]
    ELSE [g EXCEPT
            !.result[r] = Ok,
            !.image[r] = DecodedImage(g.image_bytes[r]),
            !.spans[r]["image::load_from_memory"].width =
                <<AsI64(DecodedImage(g.image_bytes[r]).width)>>,
            !.spans[r]["image::load_from_memory"].height =
                <<AsI64(DecodedImage(g.image_bytes[r]).height)>>,
            !.pc[r] = "load_ret"]

\* in_span returns, then `?`
load_from_memory_ret(w, r, g) ==
    Try(r, "image::load_from_memory", "convert_start",
        InSpanReturns(w, r, "image::load_from_memory", g))

\* stage 4 begins: in_span("artem::convert", ..)
convert_start(w, r, g) ==
    [InSpan(w, r, "artem::convert", g) EXCEPT !.pc[r] = "convert"]

\* the closure runs, in_span returns, Ok(ascii_art)
convert(w, r, g) ==
    [InSpanReturns(w, r, "artem::convert", g) EXCEPT
        !.result[r] = [Ok EXCEPT !.art = Convert(g.image[r])],
        !.log[r] = Append(@, <<"ok", "artem::convert">>),
        !.pc[r] = "get_cat_ascii_art_ret"]

\* ---- back in root_get_inner and root_get
\* the pipeline future completes in root_get_inner
get_cat_ascii_art_ret(w, r, g) ==
    [Completed(w, r, "get_cat_ascii_art", g) EXCEPT !.pc[r] = "match"]

OkResponse(art) ==
    [status |-> 200, content_type |-> "text/html; charset=utf-8", body |-> art]
\* the error's text is sent to the client
ErrorResponse_Leaking(e) ==
    [status |-> 500, content_type |-> "text/plain; charset=utf-8",
     body |-> Format(e)]
ErrorResponse(e) ==
    [status |-> 500, content_type |-> "text/plain; charset=utf-8",
     body |-> <<"Something went wrong">>]
ErrorStatus(e) == [code |-> "Error", description |-> Format(e)]

\* the error is marked on the pipeline span instead of the active span
root_get_inner_match_Pipeline(w, r, g) ==
    IF g.result[r].tag = "Ok"
    THEN [g EXCEPT !.resp[r] = OkResponse(g.result[r].art),
                   !.pc[r] = "root_get_ret"]
    ELSE [SetStatus(r, <<r, "get_cat_ascii_art">>,
                    ErrorStatus(g.result[r].e), g) EXCEPT
            !.resp[r] = ErrorResponse(g.result[r].e),
            !.pc[r] = "root_get_ret"]

\* the match on the pipeline's Result; get_active_span is the span of the
\* thread's current Context
root_get_inner_match(w, r, g) ==
    IF g.result[r].tag = "Ok"
    THEN [g EXCEPT !.resp[r] = OkResponse(g.result[r].art),
                   !.pc[r] = "root_get_ret"]
    ELSE [SetStatus(r, g.current[w], ErrorStatus(g.result[r].e), g) EXCEPT
            !.resp[r] = ErrorResponse(g.result[r].e),
            !.pc[r] = "root_get_ret"]

\* root_get_inner's future completes and root_get returns the response
root_get_ret(w, r, g) ==
    [Completed(w, r, "root_get", g) EXCEPT
        !.running[w] = 0,
        !.log[r] = Append(@, <<"response", "root_get">>),
        !.pc[r] = "done"]

\* ---- the /panic route
\* the event of the panic and its message
PanicMessage == <<"panic", "This is a test panic">>

\* a catch-panic layer turns the panic into the generic 500 response
panic_route_Caught(w, r, g) ==
    [DropGuards(w, r, g) EXCEPT
        !.resp[r] = ErrorResponse(NoError),
        !.log[r] = Append(@, <<"response", "panic">>),
        !.running[w] = 0,
        !.pc[r] = "done"]

\* panic!("This is a test panic"): the task unwinds and ends without a value
panic_route(w, r, g) ==
    [DropGuards(w, r, g) EXCEPT
        !.log[r] = Append(@, PanicMessage),
        !.running[w] = 0,
        !.pc[r] = "panicked"]

\* ---- the runtime
\* the next statement of r's task
Step(w, r, g) ==
    CASE g.pc[r] = "root_get" -> root_get(w, r, g)
      [] g.pc[r] = "root_get_inner" -> root_get_inner(w, r, g)
      [] g.pc[r] = "get_cat_ascii_art" -> get_cat_ascii_art(w, r, g)
      [] g.pc[r] = "get_cat_image_url" -> get_cat_image_url_send(w, r, g)
      [] g.pc[r] = "api_send" -> get_cat_image_url_status(w, r, g)
      [] g.pc[r] = "api_json" -> get_cat_image_url_json(w, r, g)
      [] g.pc[r] = "get_cat_image_url_ret" -> get_cat_image_url_ret(w, r, g)
      [] g.pc[r] = "download_start" -> download_file_start(w, r, g)
      [] g.pc[r] = "download_file" -> download_file_send(w, r, g)
      [] g.pc[r] = "dl_send" -> download_file_status(w, r, g)
      [] g.pc[r] = "dl_bytes" -> download_file_bytes(w, r, g)
      [] g.pc[r] = "download_file_ret" -> download_file_ret(w, r, g)
      [] g.pc[r] = "load_start" -> load_from_memory_start(w, r, g)
      [] g.pc[r] = "load" -> load_from_memory(w, r, g)
      [] g.pc[r] = "load_ret" -> load_from_memory_ret(w, r, g)
      [] g.pc[r] = "convert_start" -> convert_start(w, r, g)
      [] g.pc[r] = "convert" -> convert(w, r, g)
      [] g.pc[r] = "get_cat_ascii_art_ret" -> get_cat_ascii_art_ret(w, r, g)
      [] g.pc[r] = "match" -> root_get_inner_match(w, r, g)
      [] g.pc[r] = "root_get_ret" -> root_get_ret(w, r, g)
      [] g.pc[r] = "panic" -> panic_route(w, r, g)
      [] OTHER -> [g EXCEPT !.running[w] = 0]

\* the task runs on worker w until it suspends or returns (h is the value
\* of g, computed once)
RECURSIVE Run(_, _, _)
Run(w, r, g) ==
    CHOOSE out \in {IF h.running[w] # r THEN h ELSE Run(w, r, Step(w, r, h)) :
                        h \in {g}} : TRUE

\* the routes of the Router
Routes == {"/", "/panic"}

\* a request arrives and the Router picks the handler of its route
Accept(r) ==
    /\ pc[r] = "new"
    /\ \E h \in UserAgents : headers' = [headers EXCEPT ![r] = h]
    /\ \E p \in Routes :
          /\ path' = [path EXCEPT ![r] = p]
          /\ pc' = [pc EXCEPT ![r] = IF p = "/" THEN "root_get" ELSE "panic"]
    /\ UNCHANGED <<spans, current, futures, net, requested, image_url,
                   image_bytes, image, result, resp, log>>

\* the outstanding outbound call of r completes
Respond(r) ==
    /\ net[r].state = "pending"
    /\ \E o \in (CASE pc[r] \in {"api_send", "dl_send"} -> SendOutcomes
                   [] pc[r] = "api_json" -> JsonOutcomes
                   [] OTHER -> BytesOutcomes) :
          net' = [net EXCEPT ![r] = o]
    /\ UNCHANGED <<path, pc, headers, spans, current, futures, requested, image_url,
                   image_bytes, image, result, resp, log>>

\* worker w polls a task that can make progress
Poll(w, r) ==
    /\ pc[r] \notin {"new", "done", "panicked"}
    /\ net[r].state # "pending"
    /\ \E g \in {Run(w, r, Resume(w, r, futures[r],
                                  [State EXCEPT !.running[w] = r]))} :
          /\ path' = g.path
          /\ pc' = g.pc
          /\ headers' = g.headers
          /\ spans' = g.spans
          /\ current' = g.current
          /\ futures' = g.futures
          /\ net' = g.net
          /\ requested' = g.requested
          /\ image_url' = g.image_url
          /\ image_bytes' = g.image_bytes
          /\ image' = g.image
          /\ result' = g.result
          /\ resp' = g.resp
          /\ log' = g.log

Next ==
    \/ \E r \in Requests : Accept(r)
    \/ \E r \in Requests : Respond(r)
    \/ \E w \in Workers, r \in Requests : Poll(w, r)

Spec == Init /\ [][Next]_vars

\* the runtime polls every task that is ready to run, and every outbound
\* call eventually returns
FairSpec ==
    /\ Spec
    /\ \A r \in Requests :
          /\ WF_vars(\E w \in Workers : Poll(w, r))
          /\ WF_vars(Respond(r))

\* ---- what the properties speak of
StageNames ==
    <<"get_cat_image_url", "download_file", "image::load_from_memory",
      "artem::convert">>
StageSpans == {StageNames[k] : k \in DOMAIN StageNames}
GenericBody == <<"Something went wrong">>

Happened(r, ev) == \E i \in DOMAIN log[r] : log[r][i] = ev
Before(r, ev, i) == \E j \in 1..(i - 1) : log[r][j] = ev
StageFailed(r, stage) == Happened(r, <<"err", stage>>)
StageSucceeded(r, stage) == Happened(r, <<"ok", stage>>)
Failed(r) == \E stage \in StageSpans : StageFailed(r, stage)
Responded(r) == pc[r] = "done"

\* C1: every request in which a stage of the pipeline failed is answered
\* with status 500 and the fixed body "Something went wrong", whichever stage
\* failed; the body is never the text of the error
C1_GenericErrorResponse ==
    \A r \in Requests :
        (Responded(r) /\ Failed(r)) =>
            /\ resp[r].status = 500
            /\ resp[r].body = GenericBody
            /\ resp[r].body # Format(result[r].e)
            /\ \A i \in DOMAIN resp[r].body :
                  /\ resp[r].body[i] \notin ImageUrls \cup {api_url}
                  /\ \A j \in DOMAIN Format(result[r].e) :
                        resp[r].body[i] # Format(result[r].e)[j]

\* two requests that failed in different ways got the same 500 response
C1_Witness ==
    \E r1, r2 \in Requests :
        /\ Responded(r1) /\ Responded(r2)
        /\ StageFailed(r1, "get_cat_image_url") /\ result[r1].e.kind = "status"
        /\ StageFailed(r2, "image::load_from_memory")
        /\ resp[r1] = resp[r2]

\* C2: the response is 200 exactly when the image-source call, the download
\* and the decode succeeded; it then has content-type text/html;
\* charset=utf-8 and the markup of the decoded image as body; bytes that do
\* not decode give 500
AllSucceeded(r) ==
    /\ StageSucceeded(r, "get_cat_image_url")
    /\ StageSucceeded(r, "download_file")
    /\ Decodable(image_bytes[r])

C2_OkIffAllSucceeded ==
    \A r \in Requests :
        Responded(r) =>
            /\ resp[r].status = 200 <=> AllSucceeded(r)
            /\ resp[r].status \in {200, 500}
            /\ resp[r].status = 200 =>
                  /\ resp[r].content_type = "text/html; charset=utf-8"
                  /\ resp[r].body = Convert(DecodedImage(image_bytes[r]))
            /\ (StageSucceeded(r, "download_file") /\ ~Decodable(image_bytes[r]))
                  => resp[r].status = 500

C2_Witness ==
    \E r1, r2 \in Requests :
        /\ Responded(r1) /\ resp[r1].status = 200
        /\ image_bytes[r1] = "png 10x10"
        /\ Responded(r2) /\ resp[r2].status = 500
        /\ StageSucceeded(r2, "download_file")
        /\ image_bytes[r2] = "not an image"

\* C3: the stages of a request start in order, each only after the one
\* before it succeeded; once a stage failed no stage starts and no GET is
\* issued; an empty array from the image source means no download attempt
C3_StagesInOrder ==
    \A r \in Requests :
        /\ \A i \in DOMAIN log[r] :
              /\ \A k \in 2..Len(StageNames) :
                    log[r][i] = <<"start", StageNames[k]>> =>
                        Before(r, <<"ok", StageNames[k - 1]>>, i)
              /\ log[r][i][1] = "GET" /\ log[r][i][2] # api_url =>
                    Before(r, <<"ok", "get_cat_image_url">>, i)
              /\ log[r][i][1] = "err" =>
                    \A j \in (i + 1)..Len(log[r]) :
                        log[r][j][1] \in {"end", "status", "response"}
        /\ \A n \in StageSpans : spans[r][n].starts <= 1
        /\ (result[r].tag = "Err" /\ result[r].e = NoImagesError) =>
              /\ requested[r] = <<api_url>>
              /\ spans[r]["download_file"].state = "none"

C3_Witness ==
    \E r1, r2 \in Requests :
        /\ Responded(r1) /\ result[r1].e = NoImagesError
        /\ resp[r1].status = 500
        /\ Responded(r2) /\ StageSucceeded(r2, "artem::convert")

\* C4: when the image source answers with an array of n >= 1 objects,
\* get_cat_image_url returns the url of the last one and the download GET
\* goes to exactly that url; for an empty array it fails with the
\* no-images error and no url
C4_LastUrlSelected ==
    [][\A r \in Requests :
          (pc[r] = "api_json" /\ pc'[r] # "api_json"
             /\ net[r].ok /\ net[r].parsable) =>
              IF net[r].json = <<>>
              THEN /\ result'[r] = Err(NoImagesError)
                   /\ image_url'[r] = ""
                   /\ requested'[r] = <<api_url>>
              ELSE /\ image_url'[r] = net[r].json[Len(net[r].json)]
                   /\ requested'[r] =
                         <<api_url, net[r].json[Len(net[r].json)]>>
                   /\ <<"ok", "get_cat_image_url">> \in
                         {log'[r][i] : i \in DOMAIN log'[r]}]_vars

C4_Witness ==
    \E r1, r2 \in Requests :
        /\ StageSucceeded(r1, "get_cat_image_url")
        /\ requested[r1] = <<api_url, "http://y/cat.jpg">>
        /\ image_url[r1] = "http://y/cat.jpg"
        /\ result[r2] = Err(NoImagesError)
        /\ requested[r2] = <<api_url>>

\* C5: every span of a request is closed on every exit path: a stage's span
\* has ended before the stage's result reaches its caller and before the
\* next stage's span starts, and no span is open once the response is
\* returned; between polls the open spans are those of the live futures
C5_SpansClosed ==
    \A r \in Requests :
        /\ Responded(r) =>
              \A n \in SpanNames : spans[r][n].state \in {"none", "ended"}
        /\ \A n \in SpanNames :
              spans[r][n].state = "open" <=>
                  (Happened(r, <<"start", n>>) /\ ~Happened(r, <<"end", n>>))
        /\ {n \in SpanNames : spans[r][n].state = "open"} =
              {futures[r][i][2] : i \in DOMAIN futures[r]}
        /\ \A i \in DOMAIN log[r] :
              /\ log[r][i][1] \in {"ok", "err"} =>
                    Before(r, <<"end", log[r][i][2]>>, i)
              /\ (log[r][i][1] = "start" /\ log[r][i][2] \in StageSpans) =>
                    \A n \in StageSpans \ {log[r][i][2]} :
                        Before(r, <<"start", n>>, i) =>
                            Before(r, <<"end", n>>, i)
              /\ log[r][i][1] = "response" =>
                    \A n \in SpanNames :
                        Before(r, <<"start", n>>, i) =>
                            Before(r, <<"end", n>>, i)

\* a request whose download failed, the error going up through two `?`
C5_Witness ==
    \E r \in Requests :
        /\ Responded(r)
        /\ StageFailed(r, "download_file")
        /\ spans[r]["download_file"].state = "ended"
        /\ spans[r]["get_cat_ascii_art"].state = "ended"
        /\ spans[r]["root_get"].state = "ended"

\* C6 as claimed: when the image-source fetch, the download or the decode
\* fails, the span of the failing stage has its status set to an error
\* that carries the description of the failure
C6_StageSpanMarked ==
    \A r \in Requests : \A n \in StageSpans :
        StageFailed(r, n) => spans[r][n].status = ErrorStatus(result[r].e)

\* C6: when the image-source fetch, the download or the decode fails, the
\* span of the failing stage ends with its status unset; the error status
\* with the description of the failure is set on the request's root span
\* before the response is returned
C6_StageSpanUnmarked ==
    \A r \in Requests : \A n \in StageSpans :
        StageFailed(r, n) =>
            /\ spans[r][n].state = "ended"
            /\ spans[r][n].status = Unset
            /\ ~Happened(r, <<"status", n>>)
            /\ Responded(r) =>
                  /\ spans[r]["root_get"].status.code = "Error"
                  /\ spans[r]["root_get"].status.description =
                        Format(result[r].e)

C6_Witness ==
    \E r \in Requests :
        /\ Responded(r)
        /\ StageFailed(r, "image::load_from_memory")
        /\ spans[r]["image::load_from_memory"].status = Unset
        /\ spans[r]["root_get"].status.code = "Error"

\* the errors a stage can return
StageErrors(r, n) ==
    CASE n = "get_cat_image_url" ->
            {SendError(api_url), BodyError(api_url), JsonError, NoImagesError}
            \cup {StatusError(api_url, c) : c \in {404, 500}}
      [] n = "download_file" ->
            {SendError(image_url[r]), BodyError(image_url[r])}
            \cup {StatusError(image_url[r], c) : c \in {404, 500}}
      [] n = "image::load_from_memory" -> {ImageError}
      [] OTHER -> {}

\* C7: when the pipeline fails, the span the handler marks is the request's
\* root span and no other, the description is the failure the failing stage
\* returned, and the status is set before the 500 response is returned;
\* when the pipeline succeeds the root span's status is never an error
C7_RootSpanMarked ==
    \A r \in Requests :
        /\ (Responded(r) /\ Failed(r)) =>
              /\ spans[r]["root_get"].status = ErrorStatus(result[r].e)
              /\ \A n \in StageSpans :
                    StageFailed(r, n) => result[r].e \in StageErrors(r, n)
              /\ \A n \in SpanNames \ {"root_get"} : spans[r][n].status = Unset
              /\ \E i, j \in DOMAIN log[r] :
                    /\ i < j
                    /\ log[r][i] = <<"status", "root_get">>
                    /\ log[r][j] = <<"response", "root_get">>
              /\ resp[r].status = 500
        /\ ~Failed(r) =>
              \A n \in SpanNames : spans[r][n].status = Unset

C7_Witness ==
    \E r1, r2 \in Requests :
        /\ Responded(r1)
        /\ StageFailed(r1, "download_file")
        /\ spans[r1]["root_get"].status =
              ErrorStatus(StatusError(image_url[r1], 404))
        /\ Responded(r2) /\ resp[r2].status = 200
        /\ spans[r2]["root_get"].status = Unset

\* C8: whatever the interleaving of requests, every span started for a
\* request other than its root span descends from the root span of that
\* request, and no span has a span of another request as parent
RECURSIVE Descends(_, _, _)
Descends(id, root, fuel) ==
    /\ fuel > 0
    /\ id # NoSpan
    /\ \/ spans[id[1]][id[2]].parent = root
       \/ Descends(spans[id[1]][id[2]].parent, root, fuel - 1)

C8_OneTreePerRequest ==
    \A r \in Requests : \A n \in SpanNames :
        spans[r][n].state # "none" =>
            /\ spans[r][n].parent # NoSpan => spans[r][n].parent[1] = r
            /\ n = "root_get" => spans[r][n].parent = NoSpan
            /\ n # "root_get" =>
                  Descends(<<r, n>>, <<r, "root_get">>, Cardinality(SpanNames))

\* two requests are suspended in their downloads at once
C8_Witness ==
    \E r1, r2 \in Requests :
        /\ r1 # r2
        /\ pc[r1] = "dl_bytes" /\ net[r1].state = "pending"
        /\ pc[r2] = "dl_send" /\ net[r2].state = "ready"
        /\ spans[r1]["download_file"].parent = <<r1, "get_cat_ascii_art">>
        /\ spans[r2]["download_file"].parent = <<r2, "get_cat_ascii_art">>

\* C9: a successful run has on the decode span the attributes width and
\* height, non-negative and equal to the dimensions of the decoded image;
\* when the decode fails or is not reached neither is recorded
C9_Dimensions ==
    \A r \in Requests :
        /\ StageSucceeded(r, "image::load_from_memory") =>
              /\ Len(spans[r]["image::load_from_memory"].width) = 1
              /\ Len(spans[r]["image::load_from_memory"].height) = 1
              /\ I64EqualsU32(spans[r]["image::load_from_memory"].width[1],
                              DecodedImage(image_bytes[r]).width)
              /\ I64EqualsU32(spans[r]["image::load_from_memory"].height[1],
                              DecodedImage(image_bytes[r]).height)
        /\ (Responded(r) /\ resp[r].status = 200) =>
              StageSucceeded(r, "image::load_from_memory")
        /\ ~StageSucceeded(r, "image::load_from_memory") =>
              /\ spans[r]["image::load_from_memory"].width = <<>>
              /\ spans[r]["image::load_from_memory"].height = <<>>

C9_Witness ==
    \E r1, r2 \in Requests :
        /\ Responded(r1) /\ resp[r1].status = 200
        /\ image[r1].width = <<Limb - 1, Limb - 1>>
        /\ spans[r1]["image::load_from_memory"].width = <<<<Limb - 1, Limb - 1, 0, 0>>>>
        /\ Responded(r2) /\ StageFailed(r2, "image::load_from_memory")
        /\ spans[r2]["image::load_from_memory"].width = <<>>

\* C10: nothing is retried: a request issues at most one GET to the image
\* source and at most one GET to the image url, whatever their outcome
C10_NoRetry ==
    \A r \in Requests :
        /\ Cardinality({i \in DOMAIN requested[r] : requested[r][i] = api_url}) <= 1
        /\ Cardinality({i \in DOMAIN requested[r] : requested[r][i] # api_url}) <= 1
        /\ \A n \in SpanNames : spans[r][n].starts <= 1

\* both GETs were issued once and the download failed in transport
C10_Witness ==
    \E r \in Requests :
        /\ Responded(r)
        /\ result[r] = Err(SendError(image_url[r]))
        /\ Len(requested[r]) = 2

\* C12: a request to GET /panic never gets a response, neither 200 nor the
\* generic 500: its task ends in a panic with the fixed message, having
\* started no span, issued no GET and run no stage of the pipeline
C12_PanicNeverResponds ==
    \A r \in Requests :
        path[r] = "/panic" =>
            /\ pc[r] \in {"panic", "panicked"}
            /\ ~Responded(r)
            /\ resp[r] = NoResponse
            /\ resp[r].status \notin {200, 500}
            /\ \A n \in SpanNames : spans[r][n].state = "none"
            /\ requested[r] = <<>>
            /\ net[r] = Idle
            /\ result[r] = NoResult
            /\ futures[r] = <<>>
            /\ log[r] = IF pc[r] = "panicked" THEN <<PanicMessage>> ELSE <<>>

\* a request to /panic has panicked while another request was answered
C12_Witness ==
    \E r1, r2 \in Requests :
        /\ path[r1] = "/panic" /\ pc[r1] = "panicked"
        /\ Happened(r1, PanicMessage)
        /\ path[r2] = "/" /\ Responded(r2)

\* C13 as stated: the user_agent attribute of the root span is the value of
\* the user-agent header whenever the header is present, and the empty
\* string when it is absent
C13_HeaderValueWhenPresent ==
    \A r \in Requests :
        spans[r]["root_get"].state # "none" =>
            spans[r]["root_get"].user_agent =
                <<IF headers[r] = <<>> THEN "" ELSE headers[r][1].bytes>>

\* C13: root_get sets the user_agent attribute on the root span right after
\* starting it and before any span of the pipeline starts; the value is the
\* header's value when the header is present and is a string of visible
\* ASCII, and the empty string when the header is absent or is not such a
\* string; no other span carries the attribute
C13_UserAgentAttribute ==
    \A r \in Requests :
        /\ spans[r]["root_get"].state # "none" =>
              /\ spans[r]["root_get"].user_agent =
                    <<IF headers[r] # <<>> /\ headers[r][1].visible
                      THEN headers[r][1].bytes ELSE "">>
              /\ Len(log[r]) >= 2
              /\ log[r][1] = <<"start", "root_get">>
              /\ log[r][2] = <<"attribute", "user_agent">>
        /\ \A i \in DOMAIN log[r] :
              log[r][i] = <<"attribute", "user_agent">> => i = 2
        /\ \A n \in SpanNames \ {"root_get"} :
              /\ spans[r][n].user_agent = <<>>
              /\ spans[r][n].state # "none" =>
                    spans[r]["root_get"].user_agent # <<>>

\* a request with a readable header is in its pipeline with the attribute
\* set to the header's value, another without header has the empty string
C13_Witness ==
    \E r1, r2 \in Requests :
        /\ headers[r1] # <<>> /\ headers[r1][1].visible
        /\ spans[r1]["root_get"].user_agent = <<headers[r1][1].bytes>>
        /\ spans[r1]["get_cat_image_url"].state = "open"
        /\ path[r2] = "/" /\ headers[r2] = <<>>
        /\ spans[r2]["root_get"].user_agent = <<"">>

\* C14: a span's status is set only by the handler: every set_status of a
\* request is on its root span and happens after the pipeline has returned
\* its error (the pipeline span has ended), no stage span and no pipeline
\* span ever has a status, the error the handler reports is the one the
\* failing stage returned, and a status is set exactly once in a failing
\* request and never in a successful one
StatusEvents(r) == {i \in DOMAIN log[r] : log[r][i][1] = "status"}
ErrEvents(r) == {i \in DOMAIN log[r] : log[r][i][1] = "err"}

C14_OnlyHandlerSetsStatus ==
    \A r \in Requests :
        /\ \A n \in SpanNames \ {"root_get"} : spans[r][n].status = Unset
        /\ \A i \in StatusEvents(r) :
              /\ log[r][i] = <<"status", "root_get">>
              /\ Before(r, <<"end", "get_cat_ascii_art">>, i)
              /\ \E j \in ErrEvents(r) :
                    /\ j < i
                    /\ \A k \in (j + 1)..(i - 1) : log[r][k][1] = "end"
        /\ Cardinality(StatusEvents(r)) <= 1
        /\ Cardinality(ErrEvents(r)) <= 1
        /\ StatusEvents(r) # {} => Failed(r)
        /\ (Responded(r) /\ Failed(r)) =>
              /\ Cardinality(StatusEvents(r)) = 1
              /\ result[r].tag = "Err"
              /\ \A i \in ErrEvents(r) :
                    result[r].e \in StageErrors(r, log[r][i][2])
              /\ spans[r]["root_get"].status.description = Format(result[r].e)
        /\ (Responded(r) /\ ~Failed(r)) =>
              /\ StatusEvents(r) = {}
              /\ result[r].tag = "Ok"
              /\ spans[r]["root_get"].status = Unset

\* a request whose decode failed has exactly one status set, another that
\* succeeded has none
C14_Witness ==
    \E r1, r2 \in Requests :
        /\ Responded(r1) /\ StageFailed(r1, "image::load_from_memory")
        /\ Cardinality(StatusEvents(r1)) = 1
        /\ spans[r1]["image::load_from_memory"].status = Unset
        /\ Responded(r2) /\ resp[r2].status = 200
        /\ StatusEvents(r2) = {}

\* C15: a request to GET / whose user-agent header is present but is not a
\* string of visible ASCII is handled like one without the header: the
\* attribute is the empty string, the handler does not panic, the pipeline
\* runs, and the answer is 200 or 500 by the pipeline's outcome alone (a 500
\* only when a stage failed)
BadHeader(r) == path[r] = "/" /\ headers[r] # <<>> /\ ~headers[r][1].visible

C15_BadHeaderIsAbsent ==
    \A r \in Requests :
        BadHeader(r) =>
            /\ pc[r] # "panicked"
            /\ ~Happened(r, PanicMessage)
            /\ spans[r]["root_get"].state # "none" =>
                  /\ spans[r]["root_get"].user_agent = <<UserAgentAttribute(<<>>)>>
                  /\ spans[r]["root_get"].user_agent = <<"">>
                  /\ Happened(r, <<"start", "get_cat_ascii_art">>)
                  /\ requested[r] # <<>> /\ requested[r][1] = api_url
            /\ pc[r] \notin {"new", "root_get"} =>
                  spans[r]["root_get"].state # "none"
            /\ Responded(r) =>
                  /\ resp[r].status \in {200, 500}
                  /\ resp[r].status = 500 <=> Failed(r)
                  /\ resp[r].status = 200 <=> AllSucceeded(r)

\* a request with an unreadable header was answered 200, and another with
\* an unreadable header was answered 500 because its download failed
C15_Witness ==
    \E r1, r2 \in Requests :
        /\ BadHeader(r1) /\ Responded(r1) /\ resp[r1].status = 200
        /\ spans[r1]["root_get"].user_agent = <<"">>
        /\ BadHeader(r2) /\ Responded(r2) /\ StageFailed(r2, "download_file")

\* C11: requests are independent. Every step changes the state of one
\* request only; what a poll of a request's task does to that request (the
\* stages run, the spans, the response) is what the same poll would do were
\* the request alone in the server, on whichever worker it runs; and between
\* polls no worker thread keeps a context of a request, so nothing one
\* request wrote is there for another to read
PerRequest(r) ==
    <<path[r], pc[r], headers[r], spans[r], futures[r], net[r], requested[r],
      image_url[r], image_bytes[r], image[r], result[r], resp[r], log[r]>>

RequestState(g, r) ==
    <<g.path[r], g.pc[r], g.headers[r], g.spans[r], g.futures[r], g.net[r],
      g.requested[r], g.image_url[r], g.image_bytes[r], g.image[r], g.result[r],
      g.resp[r], g.log[r]>>

Only(f, r, none) == [q \in Requests |-> IF q = r THEN f[q] ELSE none]

\* the state in which r is as it is and no other request has arrived
Alone(r) ==
    [path |-> Only(path, r, ""), pc |-> Only(pc, r, "new"),
     headers |-> Only(headers, r, <<>>),
     spans |-> Only(spans, r, [n \in SpanNames |-> NewSpan]),
     current |-> [w \in Workers |-> NoSpan],
     futures |-> Only(futures, r, <<>>), net |-> Only(net, r, Idle),
     requested |-> Only(requested, r, <<>>),
     image_url |-> Only(image_url, r, ""),
     image_bytes |-> Only(image_bytes, r, ""),
     image |-> Only(image, r, NoImage), result |-> Only(result, r, NoResult),
     resp |-> Only(resp, r, NoResponse), log |-> Only(log, r, <<>>),
     running |-> [w \in Workers |-> 0],
     guards |-> [q \in Requests |-> <<>>]]

Pollable(r) ==
    pc[r] \notin {"new", "done", "panicked"} /\ net[r].state # "pending"

C11_Step ==
    /\ \A w \in Workers : current[w] = NoSpan /\ current'[w] = NoSpan
    /\ \A r \in Requests :
          PerRequest(r)' # PerRequest(r) =>
              /\ \A q \in Requests \ {r} : PerRequest(q)' = PerRequest(q)
              /\ Pollable(r) =>
                    \A w \in Workers :
                        PerRequest(r)' =
                            RequestState(
                                Run(w, r, Resume(w, r, futures[r],
                                    [Alone(r) EXCEPT !.running[w] = r])), r)

C11_RequestsIndependent == [][C11_Step]_vars

\* a request has failed at the image source and was answered 500 while
\* another is in flight, its download under way
C11_Witness ==
    \E r1, r2 \in Requests :
        /\ Responded(r1) /\ StageFailed(r1, "get_cat_image_url")
        /\ resp[r1].status = 500
        /\ path[r2] = "/" /\ pc[r2] = "dl_bytes"
        /\ spans[r2]["download_file"].state = "open"
        /\ ~Failed(r2)

\* C16: if every outbound call returns and every ready task is polled,
\* every request to GET / is eventually answered, with the 200 response or
\* the generic 500 response; it is answered once, and once answered it stays
\* so: its task does nothing more
ResponseEvents(r) == {i \in DOMAIN log[r] : log[r][i][1] = "response"}

Answered(r) ==
    /\ Responded(r)
    /\ Cardinality(ResponseEvents(r)) = 1
    /\ \/ resp[r].status = 200 /\ resp[r] = OkResponse(result[r].art)
       \/ resp[r].status = 500 /\ resp[r] = ErrorResponse(result[r].e)

C16_EveryRequestAnswered ==
    \A r \in Requests : (path[r] = "/") ~> []Answered(r)

\* every request went to / and was answered: one after its decode failed,
\* one with the markup
C16_Witness ==
    \A r \in Requests :
        /\ path[r] = "/" /\ Answered(r)
        /\ \/ StageFailed(r, "image::load_from_memory")
           \/ resp[r].status = 200

====
